---- MODULE Spec2Model ----
(***************************************************************************)
(* A model of aws-key-rotator (src/aws_key_rotator/rotator.py): the        *)
(* IAMKeyRotator run over the profiles of a credentials file, the rotation *)
(* of one profile step by step (every IAM call and every credentials-file  *)
(* session is one step), and the retry decorator around the inactivation.  *)
(* The IAM service is the environment: every call to it either succeeds or *)
(* fails with an error code, and the keys of a user are a set that it      *)
(* lists in any order. The credentials file is opened anew by every        *)
(* session; its open can fail, and in SpecEdited another program edits it. *)
(* In SpecInterrupted the process can be stopped between any two steps.    *)
(***************************************************************************)
EXTENDS Integers, Sequences, FiniteSets, TLC

VARIABLES
    config,             \* the argparse namespace: include, exclude
    file,               \* the credentials file: section -> (option -> value)
    remote,             \* IAM: profile -> the set of the user's access keys
    nextId,             \* IAM: the id of the next access key it creates
    attempts,           \* the retry decorator's `attempts` parameter
    runsLeft,           \* how many more times the operator invokes the tool
    phase,              \* main(): "idle", "running", "finished", "failed"
    profiles,           \* main(): the profiles the for loop has not reached
    cur,                \* the profile rotate_credentials is running for
    pc,                 \* rotate_credentials: the step it is about to take
    access_keys,        \* rotate_credentials: the list _get_access_keys returned
    key_to_delete,      \* the id handed to _delete_key (0: none)
    key_to_inactivate,  \* the id handed to _inactivate_key (0: none)
    new_key,            \* _create_key: the key create_access_key returned
    tries,              \* retry: iterations of `for _ in range(attempts)` done
    error,              \* the exception that left main() ("" : none)
    key_id_in_file,     \* rotate_credentials: the id read from the file (0: none)
    log,                \* history: IAM calls, file writes, sleeps of this rotation
    branch,             \* history: the branch of rotate_credentials taken
    selected,           \* history: the set main() iterates over
    rotations,          \* history: profile -> calls of rotate_credentials this run
    touched,            \* history: profiles with an IAM call or a rotation write
    session,            \* history: the last session on the credentials file
    valid_at_start,     \* history: the file's id named an active key at the start
    interrupted         \* history: profiles whose rotation was left half done

vars == << config, file, remote, nextId, attempts, runsLeft, phase, profiles,
           cur, pc, access_keys, key_to_delete, key_to_inactivate, new_key,
           tries, error, key_id_in_file, log, branch, selected, rotations,
           touched, session, valid_at_start, interrupted >>

-----------------------------------------------------------------------------
(* Program constants *)

AWS_ACCESS_KEY_ID == "aws_access_key_id"
AWS_SECRET_ACCESS_KEY == "aws_secret_access_key"
BAD_OPTION == "bad"
REGION == "region"
REGION_AS_WRITTEN == "Region"
REGION_VALUE == "us-east-1"
OS_ERROR == "OSError"
KEY_ERROR == "KeyError"
ACTIVE == "Active"
INACTIVE == "Inactive"
KEYBOARD_INTERRUPT == "KeyboardInterrupt"
RETRYABLE_CODE == "InvalidClientTokenId"
FATAL_CODE == "AccessDenied"
LIMIT_CODE == "LimitExceeded"
MAXIMUM_RETRIES_EXCEEDED == "MaximumRetriesExceeded"

\* @retry(attempts=20, sleep_time=3)
RETRY_ATTEMPTS == 20
\* "the two key limit" of IAM
KEY_LIMIT == 2

(* Bounds of the model *)

\* the most access keys a user holds when the tool is first invoked
MaxKeys == 3
\* the most invocations of the tool, one after the other
MaxRuns == 2
\* the largest `attempts` the retry decorator is instantiated with
MaxAttempts == 3

Profiles == {"default", "nondefault"}
NoProfile == "none"
NoId == 0
NoKey == [AccessKeyId |-> NoId, SecretAccessKey |-> NoId]

-----------------------------------------------------------------------------
(* The IAM service, as boto3 presents it *)

\* The secret IAM issues with access key k (returned once, by create_access_key).
SecretOf(k) == 0 - k

KeyMetadata(k, active) ==
    [AccessKeyId |-> k, Status |-> IF active THEN ACTIVE ELSE INACTIVE]

\* Every order in which a set can be listed.
RECURSIVE Orderings(_)
Orderings(S) ==
    IF S = {} THEN {<<>>}
    ELSE UNION {{<<x>> \o rest : rest \in Orderings(S \ {x})} : x \in S}

\* list_access_keys()["AccessKeyMetadata"]: the user's keys, in an order IAM chooses.
list_access_keys(p) == Orderings(remote[p])

KeyIds(p) == {m.AccessKeyId : m \in remote[p]}

\* The results a call can have: "ok" or the Error.Code of a ClientError.
Failures == {RETRYABLE_CODE, FATAL_CODE}
ListOutcomes == {"ok"} \cup Failures
CreateOutcomes(p) ==
    IF Cardinality(remote[p]) < KEY_LIMIT THEN {"ok"} \cup Failures
    ELSE {LIMIT_CODE} \cup Failures
KeyOutcomes(p, k) ==
    IF k \in KeyIds(p) THEN {"ok"} \cup Failures ELSE {"NoSuchEntity"} \cup Failures

create_access_key(p) ==
    [AccessKeyId |-> nextId, SecretAccessKey |-> SecretOf(nextId)]

AfterCreate(p) == remote[p] \cup {KeyMetadata(nextId, TRUE)}
AfterDelete(p, k) == {m \in remote[p] : m.AccessKeyId # k}
AfterUpdate(p, k, status) ==
    {IF m.AccessKeyId = k THEN [m EXCEPT !.Status = status] ELSE m : m \in remote[p]}

-----------------------------------------------------------------------------
(* The credentials file *)

\* ConfigParser.optionxform: option names are lower-cased when they are read.
optionxform(name) == IF name = REGION_AS_WRITTEN THEN REGION ELSE name

\* ConfigParser.read_string: the sections of the text and their options, each
\* under its lower-cased name.
read_string(text) ==
    [s \in DOMAIN text |->
        [o \in {optionxform(n) : n \in DOMAIN text[s]} |->
            text[s][CHOOSE n \in DOMAIN text[s] : optionxform(n) = o]]]

\* ConfigParser.write: every section of the parser with every option it holds.
write(parser) == [s \in DOMAIN parser |-> parser[s]]

\* SetOption making the section anew, with the assigned option only.
SetOption_Fresh(parser, a) ==
    [parser EXCEPT ![a.section] = [o \in {a.option} |-> a.value]]

\* parser[section][option] = value
SetOption(parser, a) ==
    [parser EXCEPT ![a.section] =
        [o \in DOMAIN parser[a.section] \cup {a.option} |->
            IF o = a.option THEN a.value ELSE parser[a.section][o]]]

\* The assignments of a session's body, made one after the other.
RECURSIVE SetOptions(_, _)
SetOptions(parser, assigns) ==
    IF assigns = << >> THEN parser
    ELSE SetOptions(SetOption(parser, Head(assigns)), Tail(assigns))

\* A session's body: the parser[section][option] it reads and the assignments
\* it makes. A body that touches no option of the parser:
ReadOnly == [reads |-> {}, assigns |-> << >>]

\* parser[section][option] and parser[section][option] = value raise KeyError
\* when the parser has no such section, the read also when it has no such option.
BodyRaises(parser, body) ==
    \/ \E r \in body.reads :
          r[1] \notin DOMAIN parser \/ r[2] \notin DOMAIN parser[r[1]]
    \/ \E i \in DOMAIN body.assigns : body.assigns[i].section \notin DOMAIN parser

\* _credentials with the write in a `finally`: made also when the body raises.
_credentials_Finally(text, readable, body) ==
    IF ~readable
    THEN [text |-> text, wrote |-> FALSE, error |-> OS_ERROR]
    ELSE IF BodyRaises(read_string(text), body)
    THEN [text |-> write(read_string(text)), wrote |-> TRUE, error |-> KEY_ERROR]
    ELSE [text |-> write(SetOptions(read_string(text), body.assigns)),
          wrote |-> TRUE, error |-> ""]

\* _credentials(): open and parse the file, hand the parser to the body, then
\* open the file for writing and write the parser. An error of the open or of
\* the parse, and an error raised by the body, leave the function at once.
\* (text: the file afterwards; wrote: whether it was opened for writing.)
_credentials(text, readable, body) ==
    IF ~readable
    THEN [text |-> text, wrote |-> FALSE, error |-> OS_ERROR]
    ELSE IF BodyRaises(read_string(text), body)
    THEN [text |-> text, wrote |-> FALSE, error |-> KEY_ERROR]
    ELSE [text |-> write(SetOptions(read_string(text), body.assigns)),
          wrote |-> TRUE, error |-> ""]

\* What the history keeps of a session.
Session(before, body, s) ==
    [assigns |-> Len(body.assigns), wrote |-> s.wrote, error |-> s.error,
     kept |-> s.text = before]
NoSession == [assigns |-> 0, wrote |-> FALSE, error |-> "", kept |-> TRUE]

\* _contains_keypair looking for the id option only.
_contains_keypair_IdOnly(section) == AWS_ACCESS_KEY_ID \in DOMAIN section

_contains_keypair(section) ==
    /\ AWS_ACCESS_KEY_ID \in DOMAIN section
    /\ AWS_SECRET_ACCESS_KEY \in DOMAIN section

_get_rotatable_profiles(text) ==
    {s \in DOMAIN read_string(text) : _contains_keypair(read_string(text)[s])}

\* SetKeypair storing the id and leaving the secret as it was.
SetKeypair_IdOnly(p, key) ==
    << [section |-> p, option |-> AWS_ACCESS_KEY_ID, value |-> key.AccessKeyId] >>

\* The body of the session of _create_key: the new id, then the new secret.
SetKeypair(p, key) ==
    << [section |-> p, option |-> AWS_ACCESS_KEY_ID, value |-> key.AccessKeyId],
       [section |-> p, option |-> AWS_SECRET_ACCESS_KEY,
        value |-> key.SecretAccessKey] >>

StoredId(p) ==
    IF p \in DOMAIN file /\ AWS_ACCESS_KEY_ID \in DOMAIN file[p]
    THEN file[p][AWS_ACCESS_KEY_ID] ELSE NoId

StoredSecret(p) ==
    IF p \in DOMAIN file /\ AWS_SECRET_ACCESS_KEY \in DOMAIN file[p]
    THEN file[p][AWS_SECRET_ACCESS_KEY] ELSE NoId

-----------------------------------------------------------------------------
(* rotate_credentials: pure parts *)

\* AccessKey(id=..., status=key["Status"] == ACTIVE)
AccessKey(meta) == [id |-> meta.AccessKeyId, status |-> meta.Status = ACTIVE]

_get_access_keys(listing) == [i \in 1..Len(listing) |-> AccessKey(listing[i])]

Statuses(keys) == [i \in 1..Len(keys) |-> keys[i].status]

\* Classify without the branch for two active keys.
Classify_NoBothActive(statuses) ==
    IF statuses = <<TRUE>> THEN "SingleActive"
    ELSE IF statuses \in {<<TRUE, FALSE>>, <<FALSE, TRUE>>} THEN "PairOneActive"
    ELSE "Unsupported"

\* The if/elif chain over `statuses`; "Unsupported" when no branch is taken.
Classify(statuses) ==
    IF statuses = <<TRUE>> THEN "SingleActive"
    ELSE IF statuses \in {<<TRUE, FALSE>>, <<FALSE, TRUE>>} THEN "PairOneActive"
    ELSE IF statuses = <<TRUE, TRUE>> THEN "PairBothActive"
    ELSE "Unsupported"

\* CurrentInactive always taking the second key listed.
CurrentInactive_Second(keys) == keys[2]

\* CurrentActive always taking the first key listed.
CurrentActive_First(keys) == keys[1]

\* statuses in ([True, False], [False, True]): the inactive key.
CurrentInactive(keys) == IF keys[1].status THEN keys[2] ELSE keys[1]
\* ... and the active one.
CurrentActive(keys) == IF keys[1].status THEN keys[1] ELSE keys[2]

\* KeyToDelete choosing the key that matches the file's id.
KeyToDelete_Matching(keys, id_in_file) ==
    IF id_in_file = keys[1].id THEN keys[1] ELSE keys[2]

\* KeyToInactivate always choosing the second key listed.
KeyToInactivate_Second(keys, id_in_file) == keys[2]

\* statuses == [True, True]: the key that does not match the file's id.
KeyToDelete(keys, id_in_file) == IF id_in_file = keys[1].id THEN keys[2] ELSE keys[1]
KeyToInactivate(keys, id_in_file) == IF id_in_file = keys[1].id THEN keys[1] ELSE keys[2]

\* The ids rotate_credentials hands to _delete_key and to _inactivate_key for a
\* listing and the id in the file (NoId: the branch makes no such call).
ToDelete(keys, id_in_file) ==
    CASE Classify(Statuses(keys)) = "PairOneActive" -> CurrentInactive(keys).id
      [] Classify(Statuses(keys)) = "PairBothActive" ->
            KeyToDelete(keys, id_in_file).id
      [] OTHER -> NoId

ToInactivate(keys, id_in_file) ==
    CASE Classify(Statuses(keys)) = "SingleActive" -> keys[1].id
      [] Classify(Statuses(keys)) = "PairOneActive" -> CurrentActive(keys).id
      [] Classify(Statuses(keys)) = "PairBothActive" ->
            KeyToInactivate(keys, id_in_file).id
      [] OTHER -> NoId

\* Steps with the inactivation ahead of the session that stores the new key.
Steps_InactivateFirst(state) ==
    CASE state = "SingleActive" -> << "create", "inactivate", "write" >>
      [] state = "PairOneActive" -> << "delete", "create", "inactivate", "write" >>
      [] state = "PairBothActive" ->
            << "read_id", "delete", "create", "inactivate", "write" >>
      [] OTHER -> << >>

\* Steps without the session that stores the new key.
Steps_NoWrite(state) ==
    CASE state = "SingleActive" -> << "create", "inactivate" >>
      [] state = "PairOneActive" -> << "delete", "create", "inactivate" >>
      [] state = "PairBothActive" -> << "read_id", "delete", "create", "inactivate" >>
      [] OTHER -> << >>

\* Steps without the delete of the inactive key.
Steps_NoDelete(state) ==
    CASE state = "SingleActive" -> << "create", "write", "inactivate" >>
      [] state = "PairOneActive" -> << "create", "write", "inactivate" >>
      [] state = "PairBothActive" ->
            << "read_id", "delete", "create", "write", "inactivate" >>
      [] OTHER -> << >>

\* The calls each branch of rotate_credentials makes, in the order it makes them
\* (_create_key is the create_access_key call, then the session that stores it).
Steps(state) ==
    CASE state = "SingleActive" -> << "create", "write", "inactivate" >>
      [] state = "PairOneActive" -> << "delete", "create", "write", "inactivate" >>
      [] state = "PairBothActive" ->
            << "read_id", "delete", "create", "write", "inactivate" >>
      [] OTHER -> << >>

FirstStep(state) == IF Steps(state) = << >> THEN "returned" ELSE Steps(state)[1]

StepAfter(state, step) ==
    LET s == Steps(state)
        i == CHOOSE j \in 1..Len(s) : s[j] = step
    IN  IF i < Len(s) THEN s[i + 1] ELSE "returned"

\* Decorated with every IAM call of a rotation under @retry.
Decorated_All(step) == step \in {"delete", "create", "inactivate"}

\* The steps made by a method that carries the @retry decorator.
Decorated(step) == step = "inactivate"

\* RetryOn sleeping on every ClientError, whatever its code.
RetryOn_AnyError(code) == IF code = "ok" THEN "return" ELSE "sleep"

\* The retry decorator's handling of one try: its result is returned, a
\* ClientError with code InvalidClientTokenId is slept on, any other is raised.
RetryOn(code) ==
    IF code = "ok" THEN "return"
    ELSE IF code = RETRYABLE_CODE THEN "sleep"
    ELSE "raise"

\* RetryAgain with one iteration too many.
RetryAgain_OneMore(done, n) == done <= n

\* for _ in range(attempts): whether another try is made.
RetryAgain(done, n) == done < n

\* An option of the namespace is None (NoFilter) or the list of names that
\* value.split(",") makes of its string; the empty string splits to [""].
NoFilter == <<>>
EmptyString == << "" >>

\* `if self.config.include:` -- None is false, and so is the empty string.
Truthy(list) == list # NoFilter /\ list # EmptyString

SetOf(list) == {list[i] : i \in 1..Len(list)}

\* main(): the profiles to rotate.
SelectProfiles(found, include, exclude) ==
    LET afterInclude == IF Truthy(include) THEN found \cap SetOf(include) ELSE found
    IN  IF Truthy(exclude) THEN afterInclude \ SetOf(exclude) ELSE afterInclude

\* One entry of the history of a rotation.
\* (n: how many keys the user holds when the step is taken).
Entry(p, op, k, res) ==
    [op |-> op, key |-> k, res |-> res, n |-> Cardinality(remote[p])]

-----------------------------------------------------------------------------
(* Initial states *)

\* A section with both options, holding key k and its secret.
GoodSection(k) ==
    [o \in {AWS_ACCESS_KEY_ID, AWS_SECRET_ACCESS_KEY} |->
        IF o = AWS_ACCESS_KEY_ID THEN k ELSE SecretOf(k)]
\* The section of test_bad_credentials_nothing_happens: the secret option renamed.
BadSection(k) ==
    [o \in {AWS_ACCESS_KEY_ID, BAD_OPTION} |->
        IF o = AWS_ACCESS_KEY_ID THEN k ELSE SecretOf(k)]
\* A well formed section with one more option, spelt with a capital.
RegionSection(k) ==
    [o \in {AWS_ACCESS_KEY_ID, AWS_SECRET_ACCESS_KEY, REGION_AS_WRITTEN} |->
        IF o = AWS_ACCESS_KEY_ID THEN k
        ELSE IF o = AWS_SECRET_ACCESS_KEY THEN SecretOf(k) ELSE REGION_VALUE]
\* A section with the secret only.
NoIdSection(k) == [o \in {AWS_SECRET_ACCESS_KEY} |-> SecretOf(k)]

\* The key sets of n keys, named 1..n, each active or not.
KeySets(n) ==
    {{KeyMetadata(k, act[k]) : k \in 1..n} : act \in [1..n -> BOOLEAN]}

\* The three responses the tests mock list_access_keys with.
ACCESS_KEY_RESPONSES ==
    { {KeyMetadata(1, TRUE)},
      {KeyMetadata(1, TRUE), KeyMetadata(2, FALSE)},
      {KeyMetadata(1, TRUE), KeyMetadata(2, TRUE)} }

FilterLists ==
    {EmptyString, <<"default">>, <<"nondefault">>, <<"default", "nondefault">>}
\* --include and --exclude are a mutually exclusive group of the parser.
Configs ==
    {[include |-> i, exclude |-> NoFilter] : i \in FilterLists \cup {NoFilter}}
    \cup {[include |-> NoFilter, exclude |-> e] : e \in FilterLists}

\* What every invocation starts from, whatever the file and the user's keys.
InitProgram ==
    /\ nextId = MaxKeys + 1
    /\ phase = "idle"
    /\ profiles = {}
    /\ cur = NoProfile
    /\ pc = "idle"
    /\ access_keys = <<>>
    /\ key_to_delete = NoId
    /\ key_to_inactivate = NoId
    /\ new_key = NoKey
    /\ tries = 0
    /\ error = ""
    /\ key_id_in_file = NoId
    /\ log = <<>>
    /\ branch = "none"
    /\ selected = {}
    /\ rotations = [p \in Profiles |-> 0]
    /\ touched = {}
    /\ session = NoSession
    /\ valid_at_start = FALSE
    /\ interrupted = {}

\* One profile, any id in its section, any key set of the user; the tool is
\* invoked up to MaxRuns times.
Init ==
    /\ InitProgram
    /\ config = [include |-> NoFilter, exclude |-> NoFilter]
    /\ \E k \in 1..MaxKeys : file = [s \in {"default"} |-> GoodSection(k)]
    /\ \E n \in 0..MaxKeys : \E ks \in KeySets(n) :
          remote = [p \in Profiles |-> IF p = "default" THEN ks ELSE {}]
    /\ attempts = RETRY_ATTEMPTS
    /\ runsLeft = MaxRuns

\* As Init, with the decorator's parameter drawn from 1..MaxAttempts.
InitRetry ==
    /\ InitProgram
    /\ config = [include |-> NoFilter, exclude |-> NoFilter]
    /\ \E k \in 1..MaxKeys : file = [s \in {"default"} |-> GoodSection(k)]
    /\ \E n \in 0..MaxKeys : \E ks \in KeySets(n) :
          remote = [p \in Profiles |-> IF p = "default" THEN ks ELSE {}]
    /\ attempts \in 1..MaxAttempts
    /\ runsLeft = 1

\* One invocation over a file of two sections, well formed or not, with any
\* filter, each user holding one of the key sets of the tests.
InitRun ==
    /\ InitProgram
    /\ config \in Configs
    /\ file \in [Profiles -> {GoodSection(1), BadSection(1), NoIdSection(1),
                              RegionSection(1)}]
    /\ remote \in [Profiles -> ACCESS_KEY_RESPONSES]
    /\ attempts = RETRY_ATTEMPTS
    /\ runsLeft = 1

-----------------------------------------------------------------------------
(* Actions *)

\* Raise with main() catching the error of a profile and going on to the next.
Raise_Caught(code) ==
    /\ error' = code
    /\ phase' = "running"
    /\ pc' = "returned"

\* What a ClientError (or MaximumRetriesExceeded) does: nothing catches it, it
\* leaves rotate_credentials and main().
Raise(code) ==
    /\ error' = code
    /\ phase' = "failed"
    /\ pc' = "raised"

\* What a ClientError from the IAM call of a step does: under @retry the
\* retryable code is slept on and the step is taken again, any other error (and
\* every error of an undecorated method) is raised.
Failed(step, code) ==
    IF Decorated(step) /\ RetryOn(code) = "sleep"
    THEN UNCHANGED << pc, phase, error >>
    ELSE Raise(code)

\* The steps of a rotation, and the ids of the active keys of a profile's user.
RotationSteps == {"read_id", "delete", "create", "write", "inactivate"}
ActiveIds(p) == {m.AccessKeyId : m \in {k \in remote[p] : k.Status = ACTIVE}}

\* The tool is invoked: main() up to the for loop.
Main_Start ==
    /\ phase \in {"idle", "finished", "failed"}
    /\ runsLeft > 0
    /\ runsLeft' = runsLeft - 1
    /\ \E readable \in BOOLEAN :
         LET s == _credentials(file, readable, ReadOnly)
             found == _get_rotatable_profiles(file)
             chosen == SelectProfiles(found, config.include, config.exclude)
         IN  /\ file' = s.text
             /\ session' = Session(file, ReadOnly, s)
             /\ IF s.error = ""
                THEN /\ profiles' = chosen
                     /\ selected' = chosen
                     /\ phase' = "running"
                     /\ pc' = "idle"
                     /\ error' = ""
                ELSE /\ profiles' = {}
                     /\ selected' = {}
                     /\ Raise(s.error)
    /\ cur' = NoProfile
    /\ access_keys' = <<>>
    /\ key_to_delete' = NoId
    /\ key_to_inactivate' = NoId
    /\ new_key' = NoKey
    /\ tries' = 0
    /\ key_id_in_file' = NoId
    /\ log' = <<>>
    /\ branch' = "none"
    /\ rotations' = [p \in Profiles |-> 0]
    /\ touched' = {}
    /\ valid_at_start' = FALSE
    /\ interrupted' =
         IF cur # NoProfile /\ phase = "failed" /\ branch # "none"
         THEN interrupted \cup {cur} ELSE interrupted
    /\ UNCHANGED << config, remote, nextId, attempts >>

\* The next iteration of `for profile in profiles`: rotate_credentials(p) up to
\* the branch on `statuses`.
Rotate_List(p) ==
    /\ phase = "running"
    /\ pc \in {"idle", "returned"}
    /\ p \in profiles
    /\ profiles' = profiles \ {p}
    /\ cur' = p
    /\ rotations' = [rotations EXCEPT ![p] = @ + 1]
    /\ touched' = touched \cup {p}
    /\ valid_at_start' = (StoredId(p) \in ActiveIds(p))
    /\ new_key' = NoKey
    /\ tries' = 0
    /\ key_id_in_file' = NoId
    /\ \E code \in ListOutcomes :
         IF code = "ok"
         THEN \E listing \in list_access_keys(p) :
                LET keys == _get_access_keys(listing)
                    state == Classify(Statuses(keys))
                IN  /\ access_keys' = keys
                    /\ branch' = state
                    /\ log' = << Entry(p, "list", NoId, code) >>
                    /\ key_to_delete' =
                         IF state = "PairBothActive" THEN NoId
                         ELSE ToDelete(keys, NoId)
                    /\ key_to_inactivate' =
                         IF state = "PairBothActive" THEN NoId
                         ELSE ToInactivate(keys, NoId)
                    /\ pc' = FirstStep(state)
                    /\ UNCHANGED << phase, error >>
         ELSE /\ access_keys' = <<>>
              /\ branch' = "none"
              /\ log' = << Entry(p, "list", NoId, code) >>
              /\ key_to_delete' = NoId
              /\ key_to_inactivate' = NoId
              /\ Failed("list", code)
    /\ UNCHANGED << config, file, remote, nextId, attempts, runsLeft,
                    selected, session, interrupted >>

\* statuses == [True, True]: the session that reads the id in the file.
Rotate_ReadId ==
    /\ phase = "running"
    /\ pc = "read_id"
    /\ \E readable \in BOOLEAN :
         LET body == [reads |-> {<< cur, AWS_ACCESS_KEY_ID >>}, assigns |-> << >>]
             s == _credentials(file, readable, body)
             id == read_string(file)[cur][AWS_ACCESS_KEY_ID]
         IN  /\ file' = s.text
             /\ session' = Session(file, body, s)
             /\ IF s.error = ""
                THEN /\ key_id_in_file' = id
                     /\ key_to_delete' = ToDelete(access_keys, id)
                     /\ key_to_inactivate' = ToInactivate(access_keys, id)
                     /\ pc' = StepAfter(branch, "read_id")
                     /\ UNCHANGED << phase, error >>
                ELSE /\ Raise(s.error)
                     /\ UNCHANGED << key_id_in_file, key_to_delete,
                                     key_to_inactivate >>
    /\ UNCHANGED << config, remote, nextId, attempts, runsLeft, profiles, cur,
                    access_keys, new_key, tries, log, branch, selected,
                    rotations, touched, valid_at_start, interrupted >>

\* _delete_key(profile_name, key_to_delete)
Rotate_Delete ==
    /\ phase = "running"
    /\ pc = "delete"
    /\ \E code \in KeyOutcomes(cur, key_to_delete) :
         /\ log' = Append(log, Entry(cur, "delete", key_to_delete, code))
         /\ IF code = "ok"
            THEN /\ remote' = [remote EXCEPT ![cur] = AfterDelete(cur, key_to_delete)]
                 /\ pc' = StepAfter(branch, "delete")
                 /\ UNCHANGED << phase, error >>
            ELSE /\ Failed("delete", code)
                 /\ UNCHANGED remote
    /\ UNCHANGED << config, file, nextId, attempts, runsLeft, profiles, cur,
                    access_keys, key_to_delete, key_to_inactivate, new_key,
                    tries, key_id_in_file, branch, selected, rotations,
                    touched, session, valid_at_start, interrupted >>

\* _create_key, first half: iam.create_access_key()
Rotate_Create ==
    /\ phase = "running"
    /\ pc = "create"
    /\ \E code \in CreateOutcomes(cur) :
         /\ log' = Append(log, Entry(cur, "create",
                                     IF code = "ok" THEN nextId ELSE NoId, code))
         /\ IF code = "ok"
            THEN /\ new_key' = create_access_key(cur)
                 /\ remote' = [remote EXCEPT ![cur] = AfterCreate(cur)]
                 /\ nextId' = nextId + 1
                 /\ pc' = StepAfter(branch, "create")
                 /\ UNCHANGED << phase, error >>
            ELSE /\ Failed("create", code)
                 /\ UNCHANGED << new_key, remote, nextId >>
    /\ UNCHANGED << config, file, attempts, runsLeft, profiles, cur,
                    access_keys, key_to_delete, key_to_inactivate, tries,
                    key_id_in_file, branch, selected, rotations, touched,
                    session, valid_at_start, interrupted >>

\* _create_key, second half: the session that stores the new key.
Rotate_Write ==
    /\ phase = "running"
    /\ pc = "write"
    /\ \E readable \in BOOLEAN :
         LET body == [reads |-> {}, assigns |-> SetKeypair(cur, new_key)]
             s == _credentials(file, readable, body)
         IN  /\ file' = s.text
             /\ session' = Session(file, body, s)
             /\ IF s.error = ""
                THEN /\ log' = Append(log, Entry(cur, "write",
                                                 new_key.AccessKeyId, "ok"))
                     /\ pc' = StepAfter(branch, "write")
                     /\ UNCHANGED << phase, error >>
                ELSE /\ Raise(s.error)
                     /\ UNCHANGED log
    /\ UNCHANGED << config, remote, nextId, attempts, runsLeft, profiles, cur,
                    access_keys, key_to_delete, key_to_inactivate, new_key,
                    tries, key_id_in_file, branch, selected, rotations,
                    touched, valid_at_start, interrupted >>

\* _inactivate_key under @retry: one iteration of the decorator's loop.
Rotate_Inactivate ==
    /\ phase = "running"
    /\ pc = "inactivate"
    /\ RetryAgain(tries, attempts)
    /\ tries' = tries + 1
    /\ \E code \in KeyOutcomes(cur, key_to_inactivate) :
         LET call == Entry(cur, "setStatus", key_to_inactivate, code)
             done == IF code = "ok"
                     THEN [remote EXCEPT
                             ![cur] = AfterUpdate(cur, key_to_inactivate, INACTIVE)]
                     ELSE remote
         IN  CASE RetryOn(code) = "return" ->
                    /\ remote' = done
                    /\ log' = Append(log, call)
                    /\ pc' = StepAfter(branch, "inactivate")
                    /\ UNCHANGED << phase, error >>
               [] Decorated("inactivate") /\ RetryOn(code) = "sleep" ->
                    /\ log' = log \o << call, Entry(cur, "sleep", NoId, "ok") >>
                    /\ remote' = done
                    /\ Failed("inactivate", code)
               [] OTHER ->
                    /\ log' = Append(log, call)
                    /\ remote' = done
                    /\ Raise(code)
    /\ UNCHANGED << config, file, nextId, attempts, runsLeft, profiles, cur,
                    access_keys, key_to_delete, key_to_inactivate, new_key,
                    key_id_in_file, branch, selected, rotations, touched,
                    session, valid_at_start, interrupted >>

\* The decorator's loop ran out: raise MaximumRetriesExceeded.
Rotate_RetriesExceeded ==
    /\ phase = "running"
    /\ pc = "inactivate"
    /\ ~RetryAgain(tries, attempts)
    /\ Raise(MAXIMUM_RETRIES_EXCEEDED)
    /\ UNCHANGED << config, file, remote, nextId, attempts, runsLeft,
                    profiles, cur, access_keys, key_to_delete,
                    key_to_inactivate, new_key, tries, key_id_in_file, log,
                    branch, selected, rotations, touched, session,
                    valid_at_start, interrupted >>

\* The for loop of main() is over.
Main_Finish ==
    /\ phase = "running"
    /\ pc \in {"idle", "returned"}
    /\ profiles = {}
    /\ phase' = "finished"
    /\ UNCHANGED << config, file, remote, nextId, attempts, runsLeft,
                    profiles, cur, pc, access_keys, key_to_delete,
                    key_to_inactivate, new_key, tries, error, key_id_in_file,
                    log, branch, selected, rotations, touched, session,
                    valid_at_start, interrupted >>

Next ==
    \/ Main_Start
    \/ \E p \in Profiles : Rotate_List(p)
    \/ Rotate_ReadId
    \/ Rotate_Delete
    \/ Rotate_Create
    \/ Rotate_Write
    \/ Rotate_Inactivate
    \/ Rotate_RetriesExceeded
    \/ Main_Finish

\* Another program removes a section of the credentials file during a run.
File_SectionRemoved ==
    /\ phase = "running"
    /\ \E gone \in DOMAIN file :
         file' = [t \in DOMAIN file \ {gone} |-> file[t]]
    /\ UNCHANGED << config, remote, nextId, attempts, runsLeft, phase, profiles,
                    cur, pc, access_keys, key_to_delete, key_to_inactivate,
                    new_key, tries, error, key_id_in_file, log, branch, selected,
                    rotations, touched, session, valid_at_start, interrupted >>

\* The process is stopped between two steps of a rotation (Ctrl-C, a kill).
Interrupt ==
    /\ phase = "running"
    /\ pc \in RotationSteps
    /\ Raise(KEYBOARD_INTERRUPT)
    /\ UNCHANGED << config, file, remote, nextId, attempts, runsLeft, profiles,
                    cur, access_keys, key_to_delete, key_to_inactivate, new_key,
                    tries, key_id_in_file, log, branch, selected, rotations,
                    touched, session, valid_at_start, interrupted >>

NextEdited == Next \/ File_SectionRemoved
NextInterrupted == Next \/ Interrupt

Spec == Init /\ [][Next]_vars
\* The runs of Spec with the file edited under the tool.
SpecEdited == Init /\ [][NextEdited]_vars
\* The runs of Spec with the process stopped at any step.
SpecInterrupted == Init /\ [][NextInterrupted]_vars
SpecRetry == InitRetry /\ [][Next]_vars
SpecRun == InitRun /\ [][Next]_vars

-----------------------------------------------------------------------------
(* Properties *)

Supported == {"SingleActive", "PairOneActive", "PairBothActive"}
TwoKeyStates == {"PairOneActive", "PairBothActive"}

\* The places of the history where `op` was called, and where it had result res.
Calls(op) == {i \in DOMAIN log : log[i].op = op}
CallsWith(op, res) == {i \in Calls(op) : log[i].res = res}

\* rotate_credentials has returned ("Credential rotation successful").
Returned == pc = "returned"

\* C1, as stated: whenever rotate_credentials returns after taking the branch of
\* its key state, exactly one create_access_key call and exactly one
\* update_access_key(Inactive) call were made, with exactly one
\* delete_access_key call from a two-key state and none from SingleActive.
C1_Original ==
    (Returned /\ branch \in Supported) =>
        /\ Cardinality(Calls("create")) = 1
        /\ Cardinality(Calls("setStatus")) = 1
        /\ branch \in TwoKeyStates => Cardinality(Calls("delete")) = 1
        /\ branch = "SingleActive" => Cardinality(Calls("delete")) = 0

\* C1, amended: a rotation that returns from one of the three states with a
\* branch made exactly one create_access_key call and exactly one successful
\* update_access_key(Inactive) call, after at most attempts - 1 tries of it that
\* all failed with InvalidClientTokenId, exactly one delete_access_key call from
\* a two-key state and none from SingleActive; a rotation that returns from any
\* other key state made none of the three calls.
C1_CallCounts ==
    Returned =>
        IF branch \in Supported
        THEN /\ Cardinality(Calls("create")) = 1
             /\ Cardinality(CallsWith("setStatus", "ok")) = 1
             /\ Cardinality(Calls("setStatus")) \in 1..attempts
             /\ Calls("setStatus") \subseteq
                    CallsWith("setStatus", "ok") \cup CallsWith("setStatus", RETRYABLE_CODE)
             /\ branch \in TwoKeyStates => Cardinality(Calls("delete")) = 1
             /\ branch = "SingleActive" => Cardinality(Calls("delete")) = 0
        ELSE Calls("create") \cup Calls("setStatus") \cup Calls("delete") = {}

\* A rotation from PairBothActive returned after a retried inactivation.
C1_Witness ==
    /\ Returned
    /\ branch = "PairBothActive"
    /\ Cardinality(Calls("setStatus")) = 3
    /\ Cardinality(Calls("delete")) = 1

\* C2: every update_access_key(Inactive) try comes after the session that wrote
\* the created key's id and secret to the profile's section, and while an
\* inactivation is due or has been tried the section holds that pair.
C2_WriteBeforeInactivate ==
    /\ \A i \in Calls("setStatus") :
          \E j \in Calls("write") : j < i /\ log[j].key = new_key.AccessKeyId
    /\ (pc = "inactivate" \/ Calls("setStatus") # {}) =>
          /\ new_key # NoKey
          /\ StoredId(cur) = new_key.AccessKeyId
          /\ StoredSecret(cur) = new_key.SecretAccessKey
          /\ StoredId(cur) # key_to_inactivate

\* An inactivation was tried twice, the file holding the new pair.
C2_Witness ==
    /\ Cardinality(Calls("setStatus")) = 2
    /\ StoredId(cur) = new_key.AccessKeyId
    /\ key_to_inactivate \in KeyIds(cur)

\* C3: create_access_key is never called while the user holds KEY_LIMIT keys;
\* from a two-key state a delete_access_key call has succeeded before it, and
\* after a failed delete_access_key no create_access_key call is made.
C3_DeleteBeforeCreate ==
    /\ pc = "create" => Cardinality(remote[cur]) < KEY_LIMIT
    /\ \A i \in Calls("create") :
          /\ log[i].n < KEY_LIMIT
          /\ branch \in TwoKeyStates =>
                \E j \in CallsWith("delete", "ok") : j < i
    /\ \A j \in Calls("delete") :
          log[j].res # "ok" => Calls("create") = {} /\ pc = "raised"

\* From a two-key state, the key was created after the delete.
C3_Witness ==
    /\ branch \in TwoKeyStates
    /\ CallsWith("create", "ok") # {}
    /\ CallsWith("delete", "ok") # {}

\* The ids of the keys rotate_credentials listed.
ListedIds == {access_keys[i].id : i \in DOMAIN access_keys}

\* C4: from PairBothActive, whatever the two keys and the id in the file, the id
\* passed to delete_access_key is not the id read from the file.
C4_DeleteNotLocal ==
    branch = "PairBothActive" =>
        /\ \A i \in Calls("delete") : log[i].key # key_id_in_file
        /\ pc = "delete" => key_to_delete # key_id_in_file

\* From PairBothActive the file's id was the second key listed, and the first
\* was deleted.
C4_Witness ==
    /\ branch = "PairBothActive"
    /\ key_id_in_file = access_keys[2].id
    /\ \E i \in CallsWith("delete", "ok") : log[i].key = access_keys[1].id

\* C5, as stated: from PairBothActive the key passed to
\* update_access_key(Inactive) is the listed key whose id is the id read from
\* the file, and the key deleted is the other one.
C5_Original ==
    branch = "PairBothActive" =>
        /\ \A i \in Calls("setStatus") : log[i].key = key_id_in_file
        /\ \A i \in Calls("delete") :
              log[i].key \in ListedIds \ {key_id_in_file}

\* C5, amended: from PairBothActive, when the id read from the file is the id of
\* one of the two listed keys, that key is the one passed to
\* update_access_key(Inactive) and the other one is deleted; when it is the id
\* of neither, the first key listed is deleted and the second is inactivated.
C5_InactivateMatching ==
    branch = "PairBothActive" =>
        /\ \A i \in Calls("setStatus") :
              /\ log[i].key \in ListedIds
              /\ log[i].key =
                    IF key_id_in_file \in ListedIds THEN key_id_in_file
                    ELSE access_keys[2].id
        /\ \A i \in Calls("delete") :
              /\ log[i].key \in ListedIds
              /\ log[i].key # key_id_in_file
              /\ key_id_in_file \notin ListedIds => log[i].key = access_keys[1].id
        /\ \A i \in Calls("delete"), j \in Calls("setStatus") :
              log[i].key # log[j].key

\* From PairBothActive the key matching the file was inactivated.
C5_Witness ==
    /\ branch = "PairBothActive"
    /\ Returned
    /\ key_id_in_file \in ListedIds
    /\ \E i \in CallsWith("setStatus", "ok") : log[i].key = key_id_in_file

\* C6, as stated: when list_access_keys returns no key or more than two,
\* rotate_credentials raises UnsupportedKeyState: it does not return as
\* successful; and it makes no call and no write.
C6_Original ==
    (Calls("list") # {} /\ log[1].res = "ok" /\ Len(access_keys) \notin {1, 2}) =>
        /\ ~Returned
        /\ error = "UnsupportedKeyState"
        /\ Calls("create") \cup Calls("setStatus") \cup Calls("delete")
              \cup Calls("write") = {}

\* The number of keys of the profile's user with the given status.
NumWithStatus(p, status) == Cardinality({m \in remote[p] : m.Status = status})

\* C7, as stated: whenever rotate_credentials returns, the user holds exactly one
\* active key, its id is the id in the profile's section, and at most one
\* inactive key.
C7_Original ==
    Returned =>
        /\ NumWithStatus(cur, ACTIVE) = 1
        /\ \E m \in remote[cur] : m.Status = ACTIVE /\ m.AccessKeyId = StoredId(cur)
        /\ NumWithStatus(cur, INACTIVE) <= 1

\* C8: whenever rotate_credentials returns from SingleActive, PairOneActive or
\* PairBothActive, the profile's section holds the id and the secret that this
\* rotation's create_access_key returned, which is the key IAM created last; so
\* it is after the first invocation and after the second.
C8_StoreHoldsNewKey ==
    (Returned /\ branch \in Supported) =>
        /\ \E i \in CallsWith("create", "ok") : log[i].key = StoredId(cur)
        /\ StoredId(cur) = new_key.AccessKeyId
        /\ StoredSecret(cur) = new_key.SecretAccessKey
        /\ StoredSecret(cur) = SecretOf(StoredId(cur))
        /\ StoredId(cur) = nextId - 1

\* The second invocation returned, after the first had rotated the key too.
C8_Witness ==
    /\ Returned
    /\ branch \in Supported
    /\ runsLeft = 0
    /\ nextId = MaxKeys + 3
    /\ StoredId(cur) = MaxKeys + 2

\* C9: the decorator makes at most `attempts` tries; a try that succeeds ends
\* the loop with its result; a try that fails with InvalidClientTokenId is
\* followed by a sleep and, while fewer than `attempts` tries were made, by
\* another try; a try that fails with any other code raises that error with no
\* further try; and `attempts` tries that all failed with InvalidClientTokenId
\* end in MaximumRetriesExceeded, which is raised in no other case.
C9_Retry ==
    LET made == Calls("setStatus")
        retried == CallsWith("setStatus", RETRYABLE_CODE)
    IN  /\ Cardinality(made) <= attempts
        /\ \A i \in made :
              /\ log[i].res = "ok" =>
                    i = Len(log) /\ error = "" /\ pc = "returned"
              /\ log[i].res = RETRYABLE_CODE =>
                    i < Len(log) /\ log[i + 1].op = "sleep"
              /\ log[i].res \notin {"ok", RETRYABLE_CODE} =>
                    i = Len(log) /\ error = log[i].res /\ pc = "raised"
        /\ (pc = "inactivate" /\ Cardinality(made) < attempts) =>
              ENABLED Rotate_Inactivate
        /\ error = MAXIMUM_RETRIES_EXCEEDED =>
              Cardinality(retried) = attempts /\ made = retried
        /\ Cardinality(retried) = attempts =>
              \/ error = MAXIMUM_RETRIES_EXCEEDED /\ pc = "raised"
              \/ pc = "inactivate" /\ ~ENABLED Rotate_Inactivate
                    /\ ENABLED Rotate_RetriesExceeded

\* Two tries, both failed with InvalidClientTokenId, exhausted attempts = 2.
C9_Witness ==
    /\ attempts = 2
    /\ error = MAXIMUM_RETRIES_EXCEEDED
    /\ Cardinality(CallsWith("setStatus", RETRYABLE_CODE)) = 2
    /\ Cardinality(Calls("sleep")) = 2

\* The profiles whose section lacks the id option or the secret option.
Malformed ==
    {p \in DOMAIN file :
        ~({AWS_ACCESS_KEY_ID, AWS_SECRET_ACCESS_KEY} \subseteq DOMAIN file[p])}

\* C10: a profile whose section lacks the id or the secret option is never
\* among the profiles main() iterates over, whatever the include filter names:
\* rotate_credentials is not called for it, no IAM call is made for it, and no
\* error of the run comes from it.
C10_MalformedSkipped ==
    \A p \in Malformed :
        /\ p \notin selected
        /\ p \notin profiles
        /\ rotations[p] = 0
        /\ p \notin touched
        /\ cur # p

\* A run finished in which --include named a malformed profile and a well
\* formed one, and only the well formed one was rotated.
C10_Witness ==
    /\ phase = "finished"
    /\ config.include = << "default", "nondefault" >>
    /\ file["default"] = BadSection(1)
    /\ rotations = [p \in Profiles |-> IF p = "default" THEN 0 ELSE 1]
    /\ error = ""


\* The profiles main() finds rotatable: the sections holding both options.
Discovered == DOMAIN file \ Malformed

\* main() has got past the session that discovers the profiles.
HasChosen == phase \in {"running", "finished"} \/ (phase = "failed" /\ cur # NoProfile)

\* C11, as stated: once main() has chosen, the profiles it rotates are the
\* discovered ones that the include list names if --include is given, else the
\* discovered ones that the exclude list does not name if --exclude is given,
\* else all the discovered ones.
C11_Original ==
    HasChosen =>
        selected =
            IF config.include # NoFilter
            THEN Discovered \cap SetOf(config.include)
            ELSE IF config.exclude # NoFilter
                 THEN Discovered \ SetOf(config.exclude)
                 ELSE Discovered

\* The same for every option that is absent or not the empty string.
C11_NonEmptyFilters ==
    (HasChosen /\ config.include # EmptyString) =>
        selected =
            IF config.include # NoFilter
            THEN Discovered \cap SetOf(config.include)
            ELSE IF config.exclude # NoFilter
                 THEN Discovered \ SetOf(config.exclude)
                 ELSE Discovered

\* The ids of the keys listed as active, and as inactive.
ListedActive == {access_keys[i].id : i \in {j \in DOMAIN access_keys : access_keys[j].status}}
ListedInactive ==
    {access_keys[i].id : i \in {j \in DOMAIN access_keys : ~access_keys[j].status}}

\* C16: in SingleActive every update_access_key(Inactive) call names the one
\* key that was listed; in PairOneActive the delete_access_key call names the
\* key listed as inactive and comes before create_access_key, and every
\* update_access_key(Inactive) call comes after it and names the key listed as
\* active, never the new key, at whichever position the listing had it.
C16_Targets ==
    /\ branch = "SingleActive" =>
          /\ Len(access_keys) = 1
          /\ \A i \in Calls("setStatus") :
                /\ log[i].key = access_keys[1].id
                /\ \E c \in CallsWith("create", "ok") : c < i /\ log[c].key # log[i].key
    /\ branch = "PairOneActive" =>
          /\ \A d \in Calls("delete") :
                /\ log[d].key \in ListedInactive
                /\ \A c \in Calls("create") : d < c
          /\ \A i \in Calls("setStatus") :
                /\ log[i].key \in ListedActive
                /\ \E c \in CallsWith("create", "ok") : c < i /\ log[c].key # log[i].key
                /\ \E d \in CallsWith("delete", "ok") : d < i

\* A rotation returned from PairOneActive in which the inactive key was listed
\* first: it was deleted, and the key listed second was inactivated.
C16_Witness ==
    /\ Returned
    /\ branch = "PairOneActive"
    /\ ~access_keys[1].status
    /\ \E d \in CallsWith("delete", "ok") : log[d].key = access_keys[1].id
    /\ \E i \in CallsWith("setStatus", "ok") : log[i].key = access_keys[2].id

\* The calls of a rotation that no retry wraps.
Unwrapped == {"list", "delete", "create"}

\* C17: list_access_keys, delete_access_key and create_access_key are each
\* called at most once in a rotation, and when one of them fails with
\* InvalidClientTokenId that call is the last step of the rotation: the error
\* leaves the run at once, with no sleep, no second attempt and no later call.
C17_OnlyInactivateRetried ==
    \A op \in Unwrapped :
        /\ Cardinality(Calls(op)) <= 1
        /\ \A i \in CallsWith(op, RETRYABLE_CODE) :
              /\ i = Len(log)
              /\ pc = "raised"
              /\ phase = "failed"
              /\ error = RETRYABLE_CODE

\* delete_access_key failed with InvalidClientTokenId in PairOneActive: the run
\* failed with that error after the list and the one delete call.
C17_Witness ==
    /\ branch = "PairOneActive"
    /\ Len(log) = 2
    /\ log[2].op = "delete"
    /\ log[2].res = RETRYABLE_CODE
    /\ error = RETRYABLE_CODE
    /\ phase = "failed"

\* The same keys, listed the other way round.
Reversed(keys) == [i \in 1..Len(keys) |-> keys[Len(keys) + 1 - i]]

\* rotate_credentials has chosen the keys to delete and to inactivate.
Chosen ==
    /\ branch \in Supported
    /\ branch = "PairBothActive" => key_id_in_file # NoId

\* The reversed listing has the branch of this rotation and the same targets.
SameOnReversal ==
    LET rev == Reversed(access_keys)
    IN  /\ Classify(Statuses(rev)) = branch
        /\ ToDelete(rev, key_id_in_file) = key_to_delete
        /\ ToInactivate(rev, key_id_in_file) = key_to_inactivate

\* C19, as stated: for every listing of one or two keys with a branch and every
\* id in the file, the rotation would take the same branch and hand the same
\* ids to delete_access_key and to update_access_key(Inactive) had IAM listed
\* the keys in the reverse order.
C19_Original == Chosen => SameOnReversal

\* C19, amended: the same, except in PairBothActive when the id in the file is
\* the id of neither listed key; there the first key listed is deleted and the
\* second inactivated, so that the reversed listing swaps the two targets.
C19_OrderIndependent ==
    Chosen =>
        IF branch = "PairBothActive" /\ key_id_in_file \notin ListedIds
        THEN /\ key_to_delete = access_keys[1].id
             /\ key_to_inactivate = access_keys[2].id
             /\ ToDelete(Reversed(access_keys), key_id_in_file) = key_to_inactivate
             /\ ToInactivate(Reversed(access_keys), key_id_in_file) = key_to_delete
             /\ Classify(Statuses(Reversed(access_keys))) = branch
        ELSE SameOnReversal

\* A rotation returned from PairBothActive in which the file held the id of the
\* key listed second: the key listed first was deleted, the second inactivated.
C19_Witness ==
    /\ Returned
    /\ branch = "PairBothActive"
    /\ key_id_in_file = access_keys[2].id
    /\ \E d \in CallsWith("delete", "ok") : log[d].key = access_keys[1].id
    /\ \E i \in CallsWith("setStatus", "ok") : log[i].key = access_keys[2].id

\* C18: main() hands each selected profile to rotate_credentials at most once;
\* an error of a rotation ends the run, and the selected profiles the loop had
\* not reached get no rotation and no IAM call, then or later; a run that ends
\* without an error has rotated every selected profile exactly once and no
\* other profile.
C18_NotIsolated ==
    /\ \A p \in Profiles : rotations[p] <= 1
    /\ error # "" =>
          /\ phase = "failed"
          /\ \A p \in profiles :
                /\ p \in selected
                /\ rotations[p] = 0
                /\ p \notin touched
                /\ ~ENABLED Rotate_List(p)
    /\ phase = "finished" =>
          /\ error = ""
          /\ \A p \in Profiles : rotations[p] = IF p \in selected THEN 1 ELSE 0

\* Two profiles were selected, the rotation of the first one failed, and the
\* run ended with the other one not rotated.
C18_Witness ==
    /\ phase = "failed"
    /\ error = FATAL_CODE
    /\ selected = Profiles
    /\ \E p \in Profiles :
          /\ profiles = {p}
          /\ rotations[p] = 0
          /\ p \notin touched
          /\ rotations[cur] = 1
          /\ cur # p

C20_Original == (session # NoSession /\ session.assigns = 0) => ~session.wrote

\* What a step changes in the content of the credentials file: nothing but the
\* id and the secret of the profile whose new key is being stored; no section
\* and no option comes or goes.
OnlyKeypairChanged ==
    LET before == read_string(file)
        after == read_string(file')
    IN  /\ DOMAIN after = DOMAIN before
        /\ \A s \in DOMAIN before :
              /\ DOMAIN after[s] = DOMAIN before[s]
              /\ \A o \in DOMAIN before[s] :
                    after[s][o] # before[s][o] =>
                        /\ pc = "write"
                        /\ s = cur
                        /\ o \in {AWS_ACCESS_KEY_ID, AWS_SECRET_ACCESS_KEY}

\* C13: every step of a run, session or rotation, leaves every section and
\* every option of the credentials file with the content it had, except the id
\* and the secret of the profile being rotated; so after any sequence of them
\* the other sections, the other profiles and the other options of a rotated
\* profile are as before.
C13_Frame == [][OnlyKeypairChanged]_vars

\* Two profiles, each with an option the tool does not know, were both rotated:
\* both hold a new key and the option as it was.
C13_Witness ==
    /\ phase = "finished"
    /\ \A p \in Profiles :
          /\ rotations[p] = 1
          /\ StoredId(p) > MaxKeys
          /\ DOMAIN file[p] = {AWS_ACCESS_KEY_ID, AWS_SECRET_ACCESS_KEY, REGION}
          /\ file[p][REGION] = REGION_VALUE

\* C15: when the id in the profile's section named an active key of the user
\* as the rotation started, it names a key that exists and is active at every
\* later point of that rotation: after each delete, create, write to the file
\* and try of the inactivation, and after an error that ends it.
C15_NeverWithoutKey ==
    (cur # NoProfile /\ valid_at_start) => StoredId(cur) \in ActiveIds(cur)

\* A rotation that began with a valid id in the file got as far as the
\* inactivation and failed there: the file holds the new key, which is active.
C15_Witness ==
    /\ valid_at_start
    /\ phase = "failed"
    /\ error = FATAL_CODE
    /\ CallsWith("setStatus", FATAL_CODE) # {}
    /\ StoredId(cur) = new_key.AccessKeyId
    /\ StoredId(cur) \in ActiveIds(cur)

\* C14: a rotation of a profile whose earlier rotation was left between two of
\* its steps (stopped, or ended by an error) finds, when its listing succeeds,
\* one of the three key states that have a branch, and when it returns the
\* user has exactly one active key, whose id is the one in the file.
C14_Recovery ==
    cur \in interrupted =>
        /\ (log # << >> /\ log[1].res = "ok") => branch \in Supported
        /\ Returned =>
              /\ Cardinality(ActiveIds(cur)) = 1
              /\ ActiveIds(cur) = {StoredId(cur)}

\* The run after one that was stopped between create_access_key and the write
\* to the file: it found two active keys and returned with one, the file's.
C14_Witness ==
    /\ cur \in interrupted
    /\ Returned
    /\ branch = "PairBothActive"
    /\ key_id_in_file \in ListedIds
    /\ key_id_in_file <= MaxKeys
    /\ \E k \in ListedIds : k > MaxKeys
    /\ ActiveIds(cur) = {StoredId(cur)}

====
